---- MODULE Spec2Model ----
(***************************************************************************)
(* A model of mplot::CyclicColourVisual (the cyclic colour map legend) and *)
(* of the ColourMap conversions exercised by tests/testColourMap.cpp.      *)
(*                                                                         *)
(* Numeric conventions                                                     *)
(*   lengths    integers, 1 unit = 0.01 (framelinewidth 0.01f = 1)         *)
(*   angles     integers, TwoPi units to the full turn, so that pi/2 and   *)
(*              2*pi/N are exact for every label count N <= MaxLabels      *)
(*   cos, sin   fixed point, TrigScale = 1.0                               *)
(***************************************************************************)
EXTENDS Integers, Sequences, FiniteSets, TLC

\* ------------------------------------------------------------------ bounds
MaxRings == 2
MaxSegs == 3
MaxLabels == 5
MaxFillSegs == 12
MaxUps == 6

VARIABLES
    \* configuration fields of CyclicColourVisual (public, set by the client)
    numrings, numsegs, draw_frame, draw_ticks, show_perception_sine,
    labels, label_angles,
    \* derived members
    ticklabelgap, ticklabelheight, ticklabelwidth,
    \* VisualModel buffers
    vertexPositions, vertexNormals, vertexColors, indices, idx, texts,
    \* position of the build pass: phase, loop counters, vertex_push counter
    pc, ring, j, sub, i,
    \* history of the current build pass: the steps entered, the strings
    \* handed to getTextGeometry, the divisors of two_pi/labels.size(), the
    \* ribbons requested from computeFlatCircleLine
    steps, measured, divs, ribbons,
    \* the divisors of the divisions and modulo operations evaluated by
    \* fillFrameWithColour in the current build pass
    fill_divs,
    \* what the client assigned to label_angles before the first build pass
    angles_given,
    \* a ColourMap<T>: its input type, its range, and its last conversion
    cm_T, range_min, range_max, cm_last,
    \* which of the two bounds the owner has assigned since construction
    range_set,
    \* the Voronoi example: myvisual::border_width, the VoronoiVisual's
    \* border_width, the position of main in its render loop, and the last
    \* call of p_vorv->reinit() (the model's width before it and after it),
    \* and the last key press (the key, the visual's width before and after)
    border_width, vorv_border_width, loop_pc, last_reinit, last_press

visvars == <<numrings, numsegs, draw_frame, draw_ticks, show_perception_sine,
             labels, label_angles, ticklabelgap, ticklabelheight, ticklabelwidth,
             vertexPositions, vertexNormals, vertexColors, indices, idx, texts,
             pc, ring, j, sub, i, steps, measured, divs, ribbons, fill_divs, angles_given>>

cmvars == <<cm_T, range_min, range_max, cm_last, range_set>>

vorvars == <<border_width, vorv_border_width, loop_pc, last_reinit, last_press>>

vars == <<visvars, cmvars, vorvars>>

\* ------------------------------------------------------------- arithmetic
Abs(x) == IF x < 0 THEN -x ELSE x

RECURSIVE Gcd(_, _)
Gcd(a, b) == IF b = 0 THEN a ELSE Gcd(b, a % b)

RECURSIVE LcmUpTo(_)
LcmUpTo(n) == IF n <= 1 THEN 1 ELSE LET l == LcmUpTo(n - 1) IN (l * n) \div Gcd(l, n)

\* mathconst: the full turn, and a quarter of it
TwoPi == 4 * LcmUpTo(MaxLabels)
PiOver2 == TwoPi \div 4
Pi == TwoPi \div 2

TrigScale == 1000

\* std::sin on an angle in units, by Bhaskara's rational approximation on a
\* half turn (exact at 0, pi/6, pi/2, 5pi/6, pi) and the symmetry of the sine
SinHalfTurn(a) == (16 * TrigScale * a * (Pi - a)) \div (5 * Pi * Pi - 4 * a * (Pi - a))
Sin(a) == LET m == a % TwoPi IN IF m <= Pi THEN SinHalfTurn(m) ELSE -SinHalfTurn(m - Pi)
Cos(a) == Sin(a + PiOver2)

\* ------------------------------------------------------ float arithmetic
\* The floats of the Voronoi example in units of 2^-30, the unit in the last
\* place of 0.01f: std::numeric_limits<float>::epsilon() = 2^-23, and
\* 0.01f = 10737418 * 2^-30
FloatEpsilon == 128
PressStep == 10737418
\* a float holds 24 significant bits
FloatMantissa == 16777216

\* the spacing of the floats about x
RECURSIVE FloatQuantum(_)
FloatQuantum(x) == IF x < FloatMantissa THEN 1 ELSE 2 * FloatQuantum(x \div 2)

\* the float nearest to x, ties to the even one
FloatRound(x) ==
    LET q == FloatQuantum(Abs(x))
        lo == (x \div q) * q
        r == x - lo
    IN  IF 2 * r < q THEN lo
        ELSE IF 2 * r > q THEN lo + q
        ELSE IF (lo \div q) % 2 = 0 THEN lo ELSE lo + q

\* no call of reinit yet
NoReinit == [from |-> 0, to |-> 0]
\* no key press yet
NoPress == [key |-> "none", from |-> 0, to |-> 0]

\* --------------------------------------------------- defaults of the class
outer_radius == 100
inner_radius == 30
framelinewidth == 1
z == 0

\* labels as set by the member initialiser: "pi/2", "pi", "3pi/2", "0"
DefaultLabel(k) ==
    CASE k % 4 = 1 -> "pi/2"
      [] k % 4 = 2 -> "pi"
      [] k % 4 = 3 -> "3pi/2"
      [] OTHER -> "0"

LabelList(n) == [k \in 1..n |-> DefaultLabel(k)]
LabelChoices == {LabelList(n) : n \in 0..MaxLabels}

\* the explicit angle lists a client may supply: n angles three eighths of a
\* turn apart, starting three eighths of a turn before east (so that they
\* fall in every quadrant, below 0 included), for a single label and for
\* the largest label count
ExplicitAngles(n) == [k \in 1..n |-> (k - 2) * 3 * (TwoPi \div 8)]
AngleChoices == {<<>>} \cup {ExplicitAngles(n) : n \in {1, MaxLabels}}

\* ---------------------------------------------------- text measurement
GlyphAdvance == 8
GlyphHeight == 10

\* TextGeometry of a string in the text style tf
TextWidth(s) == GlyphAdvance * Len(s)
TextHeight(s) == IF Len(s) = 0 THEN 0 ELSE GlyphHeight
TextGeometry(s) == [width |-> TextWidth(s), height |-> TextHeight(s),
                    half_width |-> TextWidth(s) \div 2,
                    half_height |-> TextHeight(s) \div 2]

\* ------------------------------------------------------------- ColourMap
FloatTypes == {"float", "double"}
IntTypes == {"char", "uchar", "short", "ushort", "int", "uint", "ulonglong"}
InputTypes == FloatTypes \cup IntTypes

\* Inputs of a floating point type are kept in halves (1 = 0.5, 2 = 1.0),
\* inputs of an integer type as they are
InputScale(T) == IF T \in FloatTypes THEN 2 ELSE 1

\* a constructed range that spans the input type (the types wider than int
\* limited to the widest value used here)
DefaultRangeMaxTypeSpan(T) ==
    CASE T \in FloatTypes -> InputScale(T)
      [] T = "char" -> 127
      [] T = "uchar" -> 255
      [] T = "short" -> 32767
      [] T = "ushort" -> 65535
      [] OTHER -> 2147483647

\* range_max of a constructed ColourMap<T>: 1.0 for a floating point type;
\* the test prints it for the char types and says "127 is prime" of char and
\* "range 0-255 by default" of int
DefaultRangeMax(T) ==
    CASE T \in FloatTypes -> InputScale(T)
      [] T = "char" -> 127
      [] OTHER -> 255

\* The fraction (value - range_min) / (range_max - range_min) in lowest
\* terms, clamped to [0, 1] for a map that is not cyclic; <<0, 0>> stands for
\* the undefined result of a degenerate range
Normalise(v, lo, hi) ==
    LET n == v - lo
        d == hi - lo
        g == Gcd(Abs(n), Abs(d))
    IN  IF d = 0 THEN <<0, 0>>
        ELSE IF n <= 0 THEN <<0, 1>>
        ELSE IF n >= d THEN <<1, 1>>
        ELSE <<n \div g, d \div g>>

\* The colour the Jet family assigns to a normalised datum: a function of
\* the datum alone
JetColour(datum) == [map |-> "Jet", datum |-> datum]

\* std::array<float,3> mid_jet = {0.541f, 0.76f, 0.018f}: Jet's colour for 0.5
mid_jet == JetColour(<<1, 2>>)

\* ColourMap<T>::convert with the range in force
Convert(v, lo, hi) == JetColour(Normalise(v, lo, hi))

\* The conversions of the test that are compared with mid_jet: the type,
\* the range_max assigned before the call (the default where the test
\* assigns none) and the value converted
TestCasesCharDefaultRange ==
    { [T |-> "float", range_max |-> 2, value |-> 1],
      [T |-> "double", range_max |-> 2, value |-> 1],
      [T |-> "uchar", range_max |-> 254, value |-> 127],
      [T |-> "char", range_max |-> 127, value |-> 63],
      [T |-> "int", range_max |-> 20000, value |-> 10000],
      [T |-> "uint", range_max |-> 10000, value |-> 5000],
      [T |-> "short", range_max |-> 1000, value |-> 500],
      [T |-> "ushort", range_max |-> 1000, value |-> 500],
      [T |-> "ulonglong", range_max |-> 256, value |-> 128],
      [T |-> "ulonglong", range_max |-> 1000000, value |-> 500000] }

TestCases ==
    { [T |-> "float", range_max |-> 2, value |-> 1],
      [T |-> "double", range_max |-> 2, value |-> 1],
      [T |-> "uchar", range_max |-> 254, value |-> 127],
      [T |-> "char", range_max |-> 126, value |-> 63],
      [T |-> "int", range_max |-> 20000, value |-> 10000],
      [T |-> "uint", range_max |-> 10000, value |-> 5000],
      [T |-> "short", range_max |-> 1000, value |-> 500],
      [T |-> "ushort", range_max |-> 1000, value |-> 500],
      [T |-> "ulonglong", range_max |-> 256, value |-> 128],
      [T |-> "ulonglong", range_max |-> 1000000, value |-> 500000] }

\* the values the owner assigns to range_max, and the values it converts
RangeChoices(T) == {DefaultRangeMax(T)} \cup {c.range_max : c \in {x \in TestCases : x.T = T}}
ValueChoices(T) == {0} \cup {c.value : c \in {x \in TestCases : x.T = T}}
                       \cup {c.range_max : c \in {x \in TestCases : x.T = T}}

NoConversion == [value |-> -1, range_min |-> 0, range_max |-> 0, colour |-> JetColour(<<0, 0>>)]

\* the lower bounds the owner assigns: zero, or a value of the test
RangeMinChoices(T) == {0} \cup {c.value : c \in {x \in TestCases : x.T = T}}

\* cm.range_max = v
SetRangeMax ==
    /\ \E v \in RangeChoices(cm_T) \ {range_max} :
         /\ v > range_min
         /\ range_max' = v
    /\ range_set' = range_set \cup {"max"}
    /\ UNCHANGED <<visvars, vorvars, cm_T, range_min, cm_last>>

\* cm.range_min = v
SetRangeMin ==
    /\ \E v \in RangeMinChoices(cm_T) \ {range_min} :
         /\ v < range_max
         /\ range_min' = v
    /\ range_set' = range_set \cup {"min"}
    /\ UNCHANGED <<visvars, vorvars, cm_T, range_max, cm_last>>

\* a conversion that reads the range the map was constructed with
ConvertValueDefaultRange ==
    /\ \E v \in ValueChoices(cm_T) :
         cm_last' = [value |-> v, range_min |-> 0, range_max |-> DefaultRangeMax(cm_T),
                     colour |-> Convert(v, 0, DefaultRangeMax(cm_T))]
    /\ UNCHANGED <<visvars, vorvars, cm_T, range_min, range_max, range_set>>

\* c = cm.convert (v)
ConvertValue ==
    /\ \E v \in ValueChoices(cm_T) :
         cm_last' = [value |-> v, range_min |-> range_min, range_max |-> range_max,
                     colour |-> Convert(v, range_min, range_max)]
    /\ UNCHANGED <<visvars, vorvars, cm_T, range_min, range_max, range_set>>

\* ------------------------------------------------------- initializeVertices
\* The order of the calls in initializeVertices: the gap measurement, then
\* drawFrame, then drawTickLabels, then fillFrameWithColour
NextPhaseFillBeforeTicks(p) ==
    CASE p = "gap" -> "frame"
      [] p = "frame" -> "fill"
      [] p = "fill" -> "ticks"
      [] OTHER -> "done"

NextPhase(p) ==
    CASE p = "gap" -> "frame"
      [] p = "frame" -> "ticks"
      [] p = "ticks" -> "fill"
      [] OTHER -> "done"

\* Loop state on entry to a phase (the fill starts at the outermost ring)
Enter(p) ==
    /\ pc' = p
    /\ ring' = IF p = "fill" THEN 0 ELSE ring
    /\ j' = 0
    /\ sub' = 0
    /\ i' = 0

config == <<numrings, numsegs, draw_frame, draw_ticks, show_perception_sine, labels,
           angles_given, cmvars, vorvars>>
buffers == <<vertexPositions, vertexNormals, vertexColors, indices, idx>>
tickdims == <<ticklabelheight, ticklabelwidth>>
loopvars == <<ring, j, sub, i>>

\* a measurement made only for a client that draws tick labels
AutoSetGapIfTicks ==
    /\ pc = "gap"
    /\ IF draw_ticks
       THEN /\ ticklabelgap' = TextGeometry("m").width \div 2
            /\ measured' = Append(measured, "m")
       ELSE UNCHANGED <<ticklabelgap, measured>>
    /\ steps' = Append(steps, "gap")
    /\ Enter(NextPhase("gap"))
    /\ UNCHANGED <<config, label_angles, buffers, tickdims, texts, divs, ribbons, fill_divs>>

\* auto em = makeVisualTextModel (tf); ticklabelgap = em_geom.width()/2.0f
AutoSetGap ==
    /\ pc = "gap"
    /\ ticklabelgap' = TextGeometry("m").width \div 2
    /\ steps' = Append(steps, "gap")
    /\ measured' = Append(measured, "m")
    /\ Enter(NextPhase("gap"))
    /\ UNCHANGED <<config, label_angles, buffers, tickdims, texts, divs, ribbons, fill_divs>>

\* ------------------------------------------------------------- drawFrame
\* VisualModel::computeFlatCircleLine: a ribbon of segs flat quads about
\* the radius r/2 with width w, two vertices a segment (at r/2 - w/2 and at
\* r/2 + w/2, kept as rn/rd), indexed from base
RibbonVertex(r, w, k) ==
    [part |-> "frame", rn |-> IF k % 2 = 0 THEN r - w ELSE r + w, rd |-> 2,
     seg |-> k \div 2, inner |-> (k % 2 = 0)]
RibbonVertices(r, w, segs) == [k \in 1..(2 * segs) |-> RibbonVertex(r, w, k - 1)]
QuadIndex(base, segs, k) ==
    LET q == k \div 6
        qn == IF segs = 0 THEN 0 ELSE (q + 1) % segs
    IN  base + (CASE k % 6 = 0 -> 2 * q
                  [] k % 6 = 1 -> 2 * qn
                  [] k % 6 = 2 -> 2 * qn + 1
                  [] k % 6 = 3 -> 2 * q
                  [] k % 6 = 4 -> 2 * qn + 1
                  [] OTHER -> 2 * q + 1)
RibbonIndices(base, segs) == [k \in 1..(6 * segs) |-> QuadIndex(base, segs, k - 1)]

\* The two ribbons of drawFrame; radii are kept doubled (radius2) so that
\* framelinewidth/2 stays integral
FrameRibbonsOnRadius ==
    << [centre |-> <<0, 0, z>>, radius2 |-> 2 * outer_radius,
        width |-> framelinewidth, colour |-> "framecolour", segs |-> numsegs],
       [centre |-> <<0, 0, z>>, radius2 |-> 2 * inner_radius,
        width |-> framelinewidth, colour |-> "framecolour", segs |-> numsegs] >>

FrameRibbons ==
    << [centre |-> <<0, 0, z>>, radius2 |-> 2 * outer_radius + framelinewidth,
        width |-> framelinewidth, colour |-> "framecolour", segs |-> numsegs],
       [centre |-> <<0, 0, z>>, radius2 |-> 2 * inner_radius + framelinewidth,
        width |-> framelinewidth, colour |-> "framecolour", segs |-> numsegs] >>

DrawFrame ==
    /\ pc = "frame"
    /\ draw_frame
    /\ LET rb == FrameRibbons
           v1 == RibbonVertices(rb[1].radius2, rb[1].width, rb[1].segs)
           v2 == RibbonVertices(rb[2].radius2, rb[2].width, rb[2].segs)
           n1 == Len(v1)
           n2 == Len(v2)
       IN  /\ vertexPositions' = vertexPositions \o v1 \o v2
           /\ vertexNormals' = vertexNormals \o [k \in 1..(n1 + n2) |-> "uz"]
           /\ vertexColors' = vertexColors \o [k \in 1..(n1 + n2) |-> [map |-> "framecolour", fn |-> 0, fd |-> 1, amp |-> 0]]
           /\ indices' = indices \o RibbonIndices(idx, rb[1].segs)
                                 \o RibbonIndices(idx + n1, rb[2].segs)
           /\ idx' = idx + n1 + n2
           /\ ribbons' = ribbons \o rb
    /\ steps' = Append(steps, "frame")
    /\ Enter(NextPhase("frame"))
    /\ UNCHANGED <<config, label_angles, ticklabelgap, tickdims, texts, measured, divs, fill_divs>>

SkipFrame ==
    /\ pc = "frame"
    /\ ~draw_frame
    /\ Enter(NextPhase("frame"))
    /\ UNCHANGED <<config, label_angles, ticklabelgap, tickdims, buffers, texts,
                   steps, measured, divs, ribbons, fill_divs>>

\* --------------------------------------------------------- drawTickLabels
\* label_angles[i] = pi_over_2 + i * (two_pi / labels.size()), then the two
\* rescaling assignments
AutoAngleClockwise(k, n) ==
    LET a0 == PiOver2 - k * (TwoPi \div n)
        a1 == IF a0 < 0 THEN a0 + TwoPi ELSE a0
    IN  IF a1 > TwoPi THEN a1 - TwoPi ELSE a1

AutoAngle(k, n) ==
    LET a0 == PiOver2 + k * (TwoPi \div n)
        a1 == IF a0 < 0 THEN a0 + TwoPi ELSE a0
    IN  IF a1 > TwoPi THEN a1 - TwoPi ELSE a1

AutoAngles(n) == [k \in 1..n |-> AutoAngle(k - 1, n)]

\* the divisors two_pi is divided by while auto-filling n angles: one
\* division in each iteration of the loop over the labels
AutoDivisorsHoisted(n) == {n}

AutoDivisors(n) == {n : k \in 1..n}

\* the label_angles in force after lines 76-87
AnglesInUse == IF label_angles = <<>> THEN AutoAngles(Len(labels)) ELSE label_angles

TickLabelsBegin ==
    /\ pc = "ticks"
    /\ draw_ticks
    /\ ticklabelheight' = 0
    /\ ticklabelwidth' = 0
    /\ label_angles' = AnglesInUse
    /\ divs' = IF label_angles = <<>> THEN divs \cup AutoDivisors(Len(labels)) ELSE divs
    /\ steps' = Append(steps, "ticks")
    /\ pc' = "label"
    /\ i' = 0
    /\ UNCHANGED <<config, ticklabelgap, buffers, texts, ring, j, sub, measured, ribbons, fill_divs>>

SkipTicks ==
    /\ pc = "ticks"
    /\ ~draw_ticks
    /\ Enter(NextPhase("ticks"))
    /\ UNCHANGED <<config, label_angles, ticklabelgap, tickdims, buffers, texts,
                   steps, measured, divs, ribbons, fill_divs>>

\* The offset of the model in the scene (the constructor's argument), in the
\* units of lblpos
mv_offset == <<50 * TrigScale * TrigScale, -20 * TrigScale * TrigScale, 0>>

\* what labels[k] (std::deque::operator[], unchecked) may yield past the
\* end: some string that is none of the labels ("?" stands for it), unless
\* the read ends the program (PlaceLabelCrash)
OobStrings == {"?"}
LabelReads(k) == IF k <= Len(labels) THEN {labels[k]} ELSE OobStrings

\* geom_gap, scaled by TrigScale
GeomGapNoAbs(a, geom) == Cos(a) * geom.half_width + Sin(a) * geom.half_height

GeomGap(a, geom) == Abs(Cos(a) * geom.half_width) + Abs(Sin(a) * geom.half_height)

\* lbl_r, scaled by TrigScale
LblR(a, geom, gap) == (outer_radius + framelinewidth + gap) * TrigScale + GeomGap(a, geom)

\* lblpos, scaled by TrigScale * TrigScale
LblPos(a, geom, gap) ==
    << LblR(a, geom, gap) * Cos(a) - geom.half_width * TrigScale * TrigScale,
       LblR(a, geom, gap) * Sin(a) - geom.half_height * TrigScale * TrigScale,
       z >>

VecAdd(u, v) == <<u[1] + v[1], u[2] + v[2], u[3] + v[3]>>

\* a loop that stops at the end of the shorter of the two lists
LabelLoopGuarded(k) == k < Len(label_angles) /\ k < Len(labels)

\* the condition of the label loop: i < label_angles.size()
LabelLoop(k) == k < Len(label_angles)

\* one iteration of the loop of lines 89-105
PlaceLabel ==
    /\ pc = "label"
    /\ LabelLoop(i)
    /\ \E s \in LabelReads(i + 1) :
         LET a == label_angles[i + 1]
             geom == TextGeometry(s)
         IN  /\ ticklabelheight' = IF geom.height > ticklabelheight THEN geom.height ELSE ticklabelheight
             /\ ticklabelwidth' = IF geom.width > ticklabelwidth THEN geom.width ELSE ticklabelwidth
             /\ measured' = Append(measured, s)
             /\ texts' = Append(texts, [text |-> s, angle |-> a, geom |-> geom,
                                        gap |-> ticklabelgap,
                                        geom_gap |-> GeomGap(a, geom),
                                        lbl_r |-> LblR(a, geom, ticklabelgap),
                                        lblpos |-> LblPos(a, geom, ticklabelgap),
                                        pos |-> VecAdd(LblPos(a, geom, ticklabelgap), mv_offset),
                                        colour |-> "tf.colour"])
    /\ i' = i + 1
    /\ UNCHANGED <<config, label_angles, ticklabelgap, buffers, pc, ring, j, sub,
                   steps, divs, ribbons, fill_divs>>

\* labels[i] past the end of the deque may also end the program
PlaceLabelCrash ==
    /\ pc = "label"
    /\ LabelLoop(i)
    /\ i + 1 > Len(labels)
    /\ pc' = "crashed"
    /\ UNCHANGED <<config, label_angles, ticklabelgap, tickdims, buffers, texts,
                   loopvars, steps, measured, divs, ribbons, fill_divs>>

LabelsDone ==
    /\ pc = "label"
    /\ ~LabelLoop(i)
    /\ Enter(NextPhase("ticks"))
    /\ UNCHANGED <<config, label_angles, ticklabelgap, tickdims, buffers, texts,
                   steps, measured, divs, ribbons, fill_divs>>

\* ---------------------------------------------------- fillFrameWithColour
\* r_out and r_in of a ring, as numerators over numrings:
\* inner_radius + r_dr * ring with r_dr = (outer_radius - inner_radius) / numrings
RingRadiusNumFromOuter(k) == outer_radius * numrings - (outer_radius - inner_radius) * k

RingRadiusNum(k) == inner_radius * numrings + (outer_radius - inner_radius) * k

\* 20 * pi * colour_angle with colour_angle = (s/numsegs) * two_pi, as an
\* angle in units: 20 * pi * s / numsegs turns, pi taken as 355/113
SineAngle(s) ==
    IF numsegs = 0 THEN 0 ELSE ((20 * 355 * s * TwoPi) \div (113 * numsegs)) % TwoPi

\* a perception sine applied whether or not show_perception_sine is set
DecayingSineAlways(s, k) == k * k * Sin(SineAngle(s))

\* decaying_sine = 0.1f * norm_r * norm_r * sin(20 * pi * colour_angle) with
\* norm_r = k/numrings on the ring boundary k, as a numerator over
\* 10 * numrings^2 * TrigScale; zero without show_perception_sine
DecayingSine(s, k) == IF show_perception_sine THEN k * k * Sin(SineAngle(s)) ELSE 0

\* colour_angle/two_pi + decaying_sine as a numerator over ConvertArgDen
ConvertArgDen == numsegs * 10 * numrings * numrings * TrigScale
ConvertArgNum(s, k) ==
    s * 10 * numrings * numrings * TrigScale + numsegs * DecayingSine(s, k)

\* The colour a cyclic family assigns to its argument n/d: a function of
\* the argument modulo 1 alone, here that fraction in lowest terms; <<0, 0>>
\* stands for the result of a floating point division by zero
CyclicColour(n, d) ==
    IF d = 0 THEN [map |-> "cyclic", datum |-> <<0, 0>>]
    ELSE LET w == n % d
             g == Gcd(w, d)
         IN  [map |-> "cyclic", datum |-> <<w \div g, d \div g>>]

\* a map that is not cyclic limits its argument to [0, 1]
FillConvertClamped(n, d) ==
    CyclicColour(IF n < 0 THEN 0 ELSE IF n >= d THEN d - 1 ELSE n, d)

\* this->cm.convert (colour_angle/two_pi + decaying_sine), cm being the
\* cyclic ColourMap the client copied in
FillConvert(n, d) == CyclicColour(n, d)

\* the argument of cm.convert for segment s on the ring boundary k: the
\* fraction s/numsegs plus, with show_perception_sine, the decaying sine of
\* amplitude 0.1 * (k/numrings)^2, which vanishes where sin(0) is taken
ColourArg(s, k) ==
    [map |-> "cm", fn |-> s, fd |-> numsegs,
     amp |-> IF show_perception_sine /\ s # 0 THEN k * k ELSE 0,
     arg |-> <<ConvertArgNum(s, k), ConvertArgDen>>,
     colour |-> FillConvert(ConvertArgNum(s, k), ConvertArgDen)]

FillPosition(s, k) ==
    [part |-> "fill", rn |-> RingRadiusNum(k), rd |-> numrings, seg |-> s,
     inner |-> (k = ring - 1), ring |-> ring]

\* the divisions evaluated before the ring loop: none (r_d / numrings is
\* inside it); hoisted, the division by numrings would come first
FillEntryDivisorsHoisted == {numrings}

FillEntryDivisors == {}

\* r_d / numrings, and the two norm_r = (r - inner_radius) / r_d
RingDivisors == {numrings, outer_radius - inner_radius}

\* j / numsegs, colour_angle / two_pi and j * two_pi / numsegs
SegmentDivisors == {numsegs, TwoPi}

\* (numsegs + ((j+1) % numsegs)) % numsegs
TriangleDivisors == {numsegs}

FillBegin ==
    /\ pc = "fill"
    /\ steps' = Append(steps, "fill")
    /\ pc' = "ring"
    /\ ring' = numrings
    /\ fill_divs' = fill_divs \cup FillEntryDivisors
    /\ UNCHANGED <<config, label_angles, ticklabelgap, tickdims, buffers, texts,
                   j, sub, i, measured, divs, ribbons>>

RingBegin ==
    /\ pc = "ring"
    /\ ring > 0
    /\ pc' = "verts"
    /\ j' = 0
    /\ sub' = 0
    /\ fill_divs' = fill_divs \cup RingDivisors
    /\ UNCHANGED <<config, label_angles, ticklabelgap, tickdims, buffers, texts,
                   ring, i, steps, measured, divs, ribbons>>

\* the condition of the vertex loop: j < static_cast<int>(numsegs)
VertexLoopInclusive(s) == s <= numsegs

VertexLoop(s) == s < numsegs

\* one vertex_push of the loop of lines 123-145: the inner vertex (position,
\* normal, colour), then the outer vertex
VertexPush ==
    /\ pc = "verts"
    /\ VertexLoop(j)
    /\ LET k == IF sub < 3 THEN ring - 1 ELSE ring IN
         CASE sub % 3 = 0 ->
                /\ vertexPositions' = Append(vertexPositions, FillPosition(j, k))
                /\ UNCHANGED <<vertexNormals, vertexColors>>
           [] sub % 3 = 1 ->
                /\ vertexNormals' = Append(vertexNormals, "uz")
                /\ UNCHANGED <<vertexPositions, vertexColors>>
           [] OTHER ->
                /\ vertexColors' = Append(vertexColors, ColourArg(j, k))
                /\ UNCHANGED <<vertexPositions, vertexNormals>>
    /\ sub' = (sub + 1) % 6
    /\ j' = IF sub = 5 THEN j + 1 ELSE j
    /\ fill_divs' = fill_divs \cup SegmentDivisors
    /\ UNCHANGED <<config, label_angles, ticklabelgap, tickdims, indices, idx, texts,
                   pc, ring, i, steps, measured, divs, ribbons>>

VertsDone ==
    /\ pc = "verts"
    /\ ~VertexLoop(j)
    /\ pc' = "tris"
    /\ j' = 0
    /\ UNCHANGED <<config, label_angles, ticklabelgap, tickdims, buffers, texts,
                   ring, sub, i, steps, measured, divs, ribbons, fill_divs>>

\* int jn = (numsegs + ((j+1) % numsegs)) % numsegs
SuccNoWrap(s) == s + 1

Succ(s) == (numsegs + ((s + 1) % numsegs)) % numsegs

\* the six indices pushed for segment s, relative to the base offset
SegmentTrianglesFlipped(base, s) ==
    LET sn == Succ(s) IN
    << base + 2 * s, base + 2 * sn, base + 2 * sn + 1,
       base + 2 * s, base + 2 * s + 1, base + 2 * sn + 1 >>

SegmentTriangles(base, s) ==
    LET sn == Succ(s) IN
    << base + 2 * s, base + 2 * sn, base + 2 * sn + 1,
       base + 2 * s, base + 2 * sn + 1, base + 2 * s + 1 >>

PushTriangles ==
    /\ pc = "tris"
    /\ j < numsegs
    /\ indices' = indices \o SegmentTriangles(idx, j)
    /\ j' = j + 1
    /\ fill_divs' = fill_divs \cup TriangleDivisors
    /\ UNCHANGED <<config, label_angles, ticklabelgap, tickdims, vertexPositions,
                   vertexNormals, vertexColors, idx, texts, pc, ring, sub, i,
                   steps, measured, divs, ribbons>>

\* this->idx += 2 * this->numsegs, and the ring loop's ring--
RingAdvanceTwice == idx + 4 * numsegs

RingAdvance == idx + 2 * numsegs

RingEnd ==
    /\ pc = "tris"
    /\ j >= numsegs
    /\ idx' = RingAdvance
    /\ ring' = ring - 1
    /\ pc' = "ring"
    /\ UNCHANGED <<config, label_angles, ticklabelgap, tickdims, vertexPositions,
                   vertexNormals, vertexColors, indices, texts, j, sub, i,
                   steps, measured, divs, ribbons, fill_divs>>

FillDone ==
    /\ pc = "ring"
    /\ ring <= 0
    /\ Enter(NextPhase("fill"))
    /\ UNCHANGED <<config, label_angles, ticklabelgap, tickdims, buffers, texts,
                   steps, measured, divs, ribbons, fill_divs>>

\* ------------------------------------------------------------- the client
\* The client assigns the public member labels between two build passes
SetLabels ==
    /\ pc = "done"
    /\ \E l \in LabelChoices \ {labels} : labels' = l
    /\ UNCHANGED <<numrings, numsegs, draw_frame, draw_ticks, show_perception_sine,
                   angles_given, cmvars, vorvars, label_angles, ticklabelgap, tickdims, buffers, texts, pc, loopvars,
                   steps, measured, divs, ribbons, fill_divs>>

\* VisualModel::reinit: the buffers and the texts are discarded, the vertex
\* offset is reset, and initializeVertices runs again
Reinit ==
    /\ pc = "done"
    /\ vertexPositions' = <<>>
    /\ vertexNormals' = <<>>
    /\ vertexColors' = <<>>
    /\ indices' = <<>>
    /\ idx' = 0
    /\ texts' = <<>>
    /\ steps' = <<>>
    /\ measured' = <<>>
    /\ divs' = {}
    /\ fill_divs' = {}
    /\ ribbons' = <<>>
    /\ Enter("gap")
    /\ UNCHANGED <<config, label_angles, ticklabelgap, tickdims>>

\* ------------------------------------------------------ the specification
\* A constructed visual, configured by the client, at the call of finalize
Init ==
    /\ numrings \in 0..MaxRings
    /\ numsegs \in 0..MaxSegs
    /\ draw_frame \in BOOLEAN
    /\ draw_ticks \in BOOLEAN
    /\ show_perception_sine \in BOOLEAN
    /\ labels \in LabelChoices
    /\ label_angles \in AngleChoices
    /\ ticklabelgap = 5
    /\ ticklabelheight = 0
    /\ ticklabelwidth = 0
    /\ vertexPositions = <<>>
    /\ vertexNormals = <<>>
    /\ vertexColors = <<>>
    /\ indices = <<>>
    /\ idx = 0
    /\ texts = <<>>
    /\ pc = "gap"
    /\ ring = 0
    /\ j = 0
    /\ sub = 0
    /\ i = 0
    /\ steps = <<>>
    /\ measured = <<>>
    /\ divs = {}
    /\ fill_divs = {}
    /\ ribbons = <<>>
    /\ angles_given = label_angles
    \* the member cm, a ColourMap<F> with the range of a floating point type
    /\ cm_T = "float"
    /\ range_min = 0
    /\ range_max = DefaultRangeMax("float")
    /\ cm_last = NoConversion
    /\ range_set = {}
    /\ border_width = FloatEpsilon
    /\ vorv_border_width = FloatEpsilon
    /\ loop_pc = "unstarted"
    /\ last_reinit = NoReinit
    /\ last_press = NoPress

Next ==
    \/ AutoSetGap
    \/ DrawFrame
    \/ SkipFrame
    \/ TickLabelsBegin
    \/ SkipTicks
    \/ PlaceLabel
    \/ PlaceLabelCrash
    \/ LabelsDone
    \/ FillBegin
    \/ RingBegin
    \/ VertexPush
    \/ VertsDone
    \/ PushTriangles
    \/ RingEnd
    \/ FillDone
    \/ SetLabels
    \/ Reinit

Spec == Init /\ [][Next]_vars

\* ------------------------------------------- the colour map test program
\* A ColourMap<T> of the Jet family as constructed, for every input type
\* of the test; the visual is not part of the program and stays as
\* constructed
InitCM ==
    /\ cm_T \in InputTypes
    /\ range_min = 0
    /\ range_max = DefaultRangeMax(cm_T)
    /\ cm_last = NoConversion
    /\ range_set = {}
    /\ border_width = FloatEpsilon
    /\ vorv_border_width = FloatEpsilon
    /\ loop_pc = "unstarted"
    /\ last_reinit = NoReinit
    /\ last_press = NoPress
    /\ numrings = 64
    /\ numsegs = 128
    /\ draw_frame = FALSE
    /\ draw_ticks = TRUE
    /\ show_perception_sine = TRUE
    /\ labels = LabelList(4)
    /\ label_angles = <<>>
    /\ angles_given = <<>>
    /\ ticklabelgap = 5
    /\ ticklabelheight = 0
    /\ ticklabelwidth = 0
    /\ vertexPositions = <<>>
    /\ vertexNormals = <<>>
    /\ vertexColors = <<>>
    /\ indices = <<>>
    /\ idx = 0
    /\ texts = <<>>
    /\ pc = "unbuilt"
    /\ ring = 0
    /\ j = 0
    /\ sub = 0
    /\ i = 0
    /\ steps = <<>>
    /\ measured = <<>>
    /\ divs = {}
    /\ fill_divs = {}
    /\ ribbons = <<>>

NextCM ==
    \/ SetRangeMax
    \/ SetRangeMin
    \/ ConvertValue

SpecCM == InitCM /\ [][NextCM]_vars

\* --------------------------------------- the fill at finer segmentations
\* A visual without tick labels (draw_ticks = false), with or without the
\* frame, at the call of finalize: the build pass with up to MaxFillSegs
\* segments per ring, where the perception sine carries the argument of
\* cm.convert out of [0, 1]
InitFill ==
    /\ numrings \in 0..MaxRings
    /\ numsegs \in 0..MaxFillSegs
    /\ draw_frame \in BOOLEAN
    /\ draw_ticks = FALSE
    /\ show_perception_sine \in BOOLEAN
    /\ labels = LabelList(4)
    /\ label_angles = <<>>
    /\ angles_given = <<>>
    /\ ticklabelgap = 5
    /\ ticklabelheight = 0
    /\ ticklabelwidth = 0
    /\ vertexPositions = <<>>
    /\ vertexNormals = <<>>
    /\ vertexColors = <<>>
    /\ indices = <<>>
    /\ idx = 0
    /\ texts = <<>>
    /\ pc = "gap"
    /\ ring = 0
    /\ j = 0
    /\ sub = 0
    /\ i = 0
    /\ steps = <<>>
    /\ measured = <<>>
    /\ divs = {}
    /\ fill_divs = {}
    /\ ribbons = <<>>
    /\ cm_T = "float"
    /\ range_min = 0
    /\ range_max = DefaultRangeMax("float")
    /\ cm_last = NoConversion
    /\ range_set = {}
    /\ border_width = FloatEpsilon
    /\ vorv_border_width = FloatEpsilon
    /\ loop_pc = "unstarted"
    /\ last_reinit = NoReinit
    /\ last_press = NoPress

NextFill ==
    \/ AutoSetGap
    \/ DrawFrame
    \/ SkipFrame
    \/ SkipTicks
    \/ FillBegin
    \/ RingBegin
    \/ VertexPush
    \/ VertsDone
    \/ PushTriangles
    \/ RingEnd
    \/ FillDone

SpecFill == InitFill /\ [][NextFill]_vars

\* ---------------------------------------------------- the Voronoi example
\* this->border_width += 0.01f
UpResult(w) == FloatRound(w + PressStep)

\* a reset to zero instead of the float epsilon
DownResultResetZero(w) ==
    LET d == FloatRound(w - PressStep) IN IF d <= 0 THEN 0 ELSE d

\* this->border_width -= 0.01f; if (this->border_width <= 0.0f) { this->border_width = epsilon; }
DownResult(w) ==
    LET d == FloatRound(w - PressStep) IN IF d <= 0 THEN FloatEpsilon ELSE d

\* the widths the presses are followed to: MaxUps steps of 0.01 above epsilon
WidthLimit == MaxUps * PressStep + FloatEpsilon

\* key_callback_extra (key::up, press), delivered by v.waitevents
KeyUp ==
    /\ loop_pc = "wait"
    /\ UpResult(border_width) <= WidthLimit
    /\ border_width' = UpResult(border_width)
    /\ last_press' = [key |-> "up", from |-> border_width, to |-> UpResult(border_width)]
    /\ UNCHANGED <<visvars, cmvars, vorv_border_width, loop_pc, last_reinit>>

\* key_callback_extra (key::down, press), delivered by v.waitevents
KeyDown ==
    /\ loop_pc = "wait"
    /\ border_width' = DownResult(border_width)
    /\ last_press' = [key |-> "down", from |-> border_width, to |-> DownResult(border_width)]
    /\ UNCHANGED <<visvars, cmvars, vorv_border_width, loop_pc, last_reinit>>

\* while (!v.readyToFinish()): the loop goes on
LoopEnter ==
    /\ loop_pc = "while"
    /\ loop_pc' = "if"
    /\ UNCHANGED <<visvars, cmvars, border_width, vorv_border_width, last_reinit, last_press>>

\* while (!v.readyToFinish()): the window was closed
LoopExit ==
    /\ loop_pc = "while"
    /\ loop_pc' = "returned"
    /\ UNCHANGED <<visvars, cmvars, border_width, vorv_border_width, last_reinit, last_press>>

\* if (p_vorv->border_width != v.border_width) { assign; p_vorv->reinit(); }
LoopSync ==
    /\ loop_pc = "if"
    /\ vorv_border_width # border_width
    /\ vorv_border_width' = border_width
    /\ last_reinit' = [from |-> vorv_border_width, to |-> border_width]
    /\ loop_pc' = "render"
    /\ UNCHANGED <<visvars, cmvars, border_width, last_press>>

\* the widths are equal: the body of the if is skipped
LoopSkip ==
    /\ loop_pc = "if"
    /\ vorv_border_width = border_width
    /\ loop_pc' = "render"
    /\ UNCHANGED <<visvars, cmvars, border_width, vorv_border_width, last_reinit, last_press>>

\* v.render()
Render ==
    /\ loop_pc = "render"
    /\ loop_pc' = "wait"
    /\ UNCHANGED <<visvars, cmvars, border_width, vorv_border_width, last_reinit, last_press>>

\* v.waitevents (0.018) returns
WaitEventsReturn ==
    /\ loop_pc = "wait"
    /\ loop_pc' = "while"
    /\ UNCHANGED <<visvars, cmvars, border_width, vorv_border_width, last_reinit, last_press>>

\* main at the head of its render loop: vorv->border_width = v.border_width
\* (line 53) and both models finalized; the CyclicColourVisual and the
\* ColourMap of the other programs are not part of this one
InitVor ==
    /\ border_width = FloatEpsilon
    /\ vorv_border_width = border_width
    /\ loop_pc = "while"
    /\ last_reinit = NoReinit
    /\ last_press = NoPress
    /\ cm_T = "float"
    /\ range_min = 0
    /\ range_max = DefaultRangeMax("float")
    /\ cm_last = NoConversion
    /\ range_set = {}
    /\ numrings = 64
    /\ numsegs = 128
    /\ draw_frame = FALSE
    /\ draw_ticks = TRUE
    /\ show_perception_sine = TRUE
    /\ labels = LabelList(4)
    /\ label_angles = <<>>
    /\ angles_given = <<>>
    /\ ticklabelgap = 5
    /\ ticklabelheight = 0
    /\ ticklabelwidth = 0
    /\ vertexPositions = <<>>
    /\ vertexNormals = <<>>
    /\ vertexColors = <<>>
    /\ indices = <<>>
    /\ idx = 0
    /\ texts = <<>>
    /\ pc = "unbuilt"
    /\ ring = 0
    /\ j = 0
    /\ sub = 0
    /\ i = 0
    /\ steps = <<>>
    /\ measured = <<>>
    /\ divs = {}
    /\ fill_divs = {}
    /\ ribbons = <<>>

NextVor ==
    \/ KeyUp
    \/ KeyDown
    \/ LoopEnter
    \/ LoopExit
    \/ LoopSync
    \/ LoopSkip
    \/ Render
    \/ WaitEventsReturn

SpecVor == InitVor /\ [][NextVor]_vars

\* ================================================================ claims
Range(s) == {s[k] : k \in 1..Len(s)}
Count(s, P(_)) == Cardinality({k \in 1..Len(s) : P(s[k])})
IsFillVertex(v) == v.part = "fill"
IsMapColour(c) == c.map = "cm"

\* C1: one call of fillFrameWithColour appends exactly 2*R*S vertices to
\* each of the position, normal and colour sequences and 2*R*S triangles
\* (6*R*S indices): on empty buffers (no frame) these are the lengths after
\* the build, and with a frame before it they are the fill's share.
C1_FillCounts ==
    pc = "done" =>
        /\ Count(vertexPositions, IsFillVertex) = 2 * numrings * numsegs
        /\ Count(vertexColors, IsMapColour) = 2 * numrings * numsegs
        /\ Len(vertexNormals) = Len(vertexPositions)
        /\ ~draw_frame =>
             /\ Len(vertexPositions) = 2 * numrings * numsegs
             /\ Len(vertexNormals) = 2 * numrings * numsegs
             /\ Len(vertexColors) = 2 * numrings * numsegs
             /\ Len(indices) = 6 * numrings * numsegs
             /\ Len(indices) \div 3 = 2 * numrings * numsegs
        /\ draw_frame => Len(indices) - 12 * numsegs = 6 * numrings * numsegs

C1_Witness ==
    /\ pc = "done"
    /\ ~draw_frame
    /\ numrings = MaxRings
    /\ numsegs = MaxSegs
    /\ Len(vertexPositions) = 2 * MaxRings * MaxSegs

\* The triangles of the index sequence, and the outer boundary of the fill
NumTriangles == Len(indices) \div 3
Triangle(t) == {indices[3 * t - 2], indices[3 * t - 1], indices[3 * t]}
ValidIndex(v) == v >= 0 /\ v < Len(vertexPositions)
IsOuterFill(v) ==
    /\ ValidIndex(v)
    /\ vertexPositions[v + 1].part = "fill"
    /\ ~vertexPositions[v + 1].inner
OuterFill == {v \in 0..(Len(vertexPositions) - 1) : IsOuterFill(v)}
\* the triangles on which u and v are joined by an edge
EdgeTriangles(u, v) == {t \in 1..NumTriangles : {u, v} \subseteq Triangle(t)}
OuterNeighbours(v) == {u \in OuterFill \ {v} : EdgeTriangles(u, v) # {}}
\* the outer vertex of segment s on the ring whose outer vertex of segment 0 is v0
OuterOfSegment(v0, s) == v0 + 2 * s

\* the number of boundary edges walked from cur (reached from prev) until
\* start is met again, each step leaving by the one edge it did not arrive
\* by; -1 if the walk meets a vertex without exactly one such edge
RECURSIVE StepsToReturn(_, _, _, _)
StepsToReturn(start, prev, cur, n) ==
    IF cur = start THEN n
    ELSE IF n > Len(vertexPositions) THEN -1
    ELSE LET onward == OuterNeighbours(cur) \ {prev}
         IN  IF Cardinality(onward) # 1 THEN -1
             ELSE StepsToReturn(start, cur, CHOOSE u \in onward : TRUE, n + 1)

\* C2: for S >= 3, every index refers to an existing vertex, and on every
\* ring the outer boundary edges (outer vertex of segment s to that of
\* segment (s+1) mod S) form one closed loop: each such edge is present on
\* exactly one triangle, and the walk from segment 0 towards segment 1
\* visits S distinct vertices and is back at its start after exactly S steps.
C2_MeshClosure ==
    (pc = "done" /\ numsegs >= 3) =>
        /\ \A k \in 1..Len(indices) : ValidIndex(indices[k])
        /\ \A v0 \in {v \in OuterFill : vertexPositions[v + 1].seg = 0} :
             /\ \A s \in 0..(numsegs - 1) :
                  /\ IsOuterFill(OuterOfSegment(v0, s))
                  /\ vertexPositions[OuterOfSegment(v0, s) + 1].seg = s
                  /\ Cardinality(EdgeTriangles(OuterOfSegment(v0, s),
                                               OuterOfSegment(v0, (s + 1) % numsegs))) = 1
             /\ Cardinality({OuterOfSegment(v0, s) : s \in 0..(numsegs - 1)}) = numsegs
             /\ StepsToReturn(v0, v0, OuterOfSegment(v0, 1), 1) = numsegs

C2_Witness ==
    /\ pc = "done"
    /\ numsegs = MaxSegs
    /\ numrings = MaxRings
    /\ draw_frame
    /\ Cardinality({v \in OuterFill : vertexPositions[v + 1].seg = 0}) = MaxRings

\* the build pass is at a point where every vertex begun has all three of
\* its entries
VertexComplete == pc # "verts" \/ sub % 3 = 0
\* the indices a step appends
Appended == SubSeq(indices', Len(indices) + 1, Len(indices'))
\* a step of a build pass (Reinit discards the buffers and begins another)
SamePass == ~(pc = "done" /\ pc' = "gap")

\* C3: throughout a build pass the position, normal and colour sequences
\* have equal length whenever a vertex has been fully emitted; every index
\* is smaller than that length at the moment it is appended; and the
\* running vertex offset idx never decreases.
C3_BufferInvariant ==
    /\ [](VertexComplete =>
            /\ Len(vertexNormals) = Len(vertexPositions)
            /\ Len(vertexColors) = Len(vertexPositions))
    /\ [][SamePass =>
            /\ Len(indices') >= Len(indices)
            /\ \A k \in 1..Len(Appended) :
                 /\ Appended[k] >= 0
                 /\ Appended[k] < Len(vertexPositions')
                 /\ Appended[k] < Len(vertexNormals')
                 /\ Appended[k] < Len(vertexColors')
            /\ idx' >= idx]_vars

C3_Witness ==
    /\ pc = "tris"
    /\ j = 1
    /\ ring = 1
    /\ numrings = MaxRings
    /\ draw_frame
    /\ texts # <<>>
    /\ idx > 0
    /\ Len(indices) > 12 * numsegs

\* the calls initializeVertices makes for the configuration, in order
ExpectedSteps ==
    <<"gap">> \o (IF draw_frame THEN <<"frame">> ELSE <<>>)
              \o (IF draw_ticks THEN <<"ticks">> ELSE <<>>)
              \o <<"fill">>
IsPrefix(s, t) == Len(s) <= Len(t) /\ \A k \in 1..Len(s) : s[k] = t[k]
ReferenceGap == TextGeometry("m").width \div 2

\* C4: initializeVertices measures the reference glyph, then builds the
\* frame iff draw_frame, then places the labels iff draw_ticks, then fills
\* the disc, always and last: the calls made are at every moment a prefix
\* of that order and at the end all of it, frame vertices precede fill
\* vertices in the buffers, and every label is placed with the gap measured
\* in the same call.
C4_BuildOrder ==
    /\ IsPrefix(steps, ExpectedSteps)
    /\ pc = "done" => steps = ExpectedSteps /\ steps[Len(steps)] = "fill"
    /\ \A a, b \in 1..Len(vertexPositions) :
         (a < b /\ vertexPositions[a].part = "fill") => vertexPositions[b].part = "fill"
    /\ \A k \in 1..Len(texts) :
         /\ steps # <<>> /\ steps[1] = "gap"
         /\ texts[k].gap = ReferenceGap
         /\ texts[k].gap = ticklabelgap

C4_Witness ==
    /\ pc = "done"
    /\ draw_frame
    /\ draw_ticks
    /\ steps = <<"gap", "frame", "ticks", "fill">>
    /\ Len(texts) = MaxLabels
    /\ \E a, b \in 1..Len(vertexPositions) :
         a < b /\ vertexPositions[a].part = "frame" /\ vertexPositions[b].part = "fill"

\* drawTickLabels has just auto-filled label_angles for at least one label
AutoFilled == pc = "label" /\ i = 0 /\ divs # {}

\* C5: with label_angles empty and N >= 1 labels, drawTickLabels generates
\* exactly N angles, the first pi/2 and each next one 2*pi/N further
\* counter-clockwise (modulo 2*pi).
C5_AutoAngles ==
    AutoFilled =>
        LET n == Len(labels) IN
        /\ n >= 1
        /\ Len(label_angles) = n
        /\ n * (TwoPi \div n) = TwoPi
        /\ label_angles[1] = PiOver2
        /\ \A k \in 1..(n - 1) :
             (label_angles[k + 1] - label_angles[k] - (TwoPi \div n)) % TwoPi = 0

C5_Witness ==
    /\ AutoFilled
    /\ Len(label_angles) = MaxLabels
    /\ label_angles[MaxLabels] # label_angles[1] + (MaxLabels - 1) * (TwoPi \div MaxLabels)

\* C6: every auto-generated label angle lies in [0, 2*pi); the default four
\* labels get pi/2, pi, 3*pi/2 and 0.
C6_AnglesInHalfOpenTurn ==
    AutoFilled =>
        /\ \A k \in 1..Len(label_angles) : 0 <= label_angles[k] /\ label_angles[k] < TwoPi
        /\ Len(labels) = 4 => label_angles = <<PiOver2, Pi, 3 * PiOver2, 0>>

\* C7: with no labels and no angles drawTickLabels places no label, measures
\* no label text (the only measurement of the pass is the reference glyph),
\* divides two_pi by no label count, zero least of all, and leaves the
\* maximum label width and height at 0.
C7_NoLabels ==
    (labels = <<>> /\ label_angles = <<>> /\ "ticks" \in Range(steps)) =>
        /\ texts = <<>>
        /\ measured = <<"m">>
        /\ 0 \notin divs
        /\ divs = {}
        /\ ticklabelwidth = 0
        /\ ticklabelheight = 0

C7_Witness ==
    /\ labels = <<>>
    /\ label_angles = <<>>
    /\ angles_given = <<>>
    /\ "ticks" \in Range(steps)
    /\ pc = "done"

\* the label entries of a first build of the present configuration without
\* explicit angles
FreshEntry(k) == [text |-> labels[k], angle |-> AutoAngle(k - 1, Len(labels))]

\* C8: label entries are recomputed on every build pass: when the client
\* gave no explicit angles, the labels placed by a pass (the first or a
\* later one, after a change of the label list) are those of a fresh build,
\* one per label at the auto-distributed angle for the present label count.
\* (Stated of the passes that read no label past the end of the list.)
C8_LabelsRecomputed ==
    (pc = "fill" /\ draw_ticks /\ angles_given = <<>>
       /\ Len(label_angles) <= Len(labels)) =>
        /\ label_angles = AutoAngles(Len(labels))
        /\ Len(texts) = Len(labels)
        /\ \A k \in 1..Len(texts) :
             /\ texts[k].text = FreshEntry(k).text
             /\ texts[k].angle = FreshEntry(k).angle

\* C9: every label is placed at the radius outer_radius + framelinewidth +
\* ticklabelgap + |cos(angle)*half_width| + |sin(angle)*half_height|, never
\* below outer_radius + framelinewidth + ticklabelgap, with the anchor
\* (radius*cos(angle) - half_width, radius*sin(angle) - half_height, z).
C9_LabelAnchor ==
    \A k \in 1..Len(texts) :
        LET e == texts[k]
            c == Cos(e.angle)
            s == Sin(e.angle)
            hw == e.geom.half_width
            hh == e.geom.half_height
            base == (outer_radius + framelinewidth + ticklabelgap) * TrigScale
            clearance == (IF c * hw < 0 THEN -(c * hw) ELSE c * hw)
                         + (IF s * hh < 0 THEN -(s * hh) ELSE s * hh)
        IN  /\ e.angle = label_angles[k]
            /\ e.geom = TextGeometry(e.text)
            /\ e.lbl_r = base + clearance
            /\ e.lbl_r >= base
            /\ e.lblpos = << e.lbl_r * c - hw * TrigScale * TrigScale,
                             e.lbl_r * s - hh * TrigScale * TrigScale,
                             z >>

C9_Witness ==
    \E k \in 1..Len(texts) :
        /\ Cos(texts[k].angle) < 0
        /\ Sin(texts[k].angle) < 0
        /\ texts[k].geom.half_width > 0
        /\ texts[k].lbl_r > (outer_radius + framelinewidth + ticklabelgap) * TrigScale

\* the last conversion took a value exactly half way through the range in
\* force at the call
HalfOfRange ==
    /\ cm_last # NoConversion
    /\ cm_last.range_max # cm_last.range_min
    /\ 2 * (cm_last.value - cm_last.range_min) = cm_last.range_max - cm_last.range_min

\* C10: for a Jet colour map of every input type of the test, a conversion
\* of the value half way through the range returns the one midpoint colour
\* mid_jet, whatever the type and the magnitudes, and each conversion the
\* test compares with mid_jet (its range_max, its value) is such a one.
C10_JetMidpoint ==
    /\ HalfOfRange => cm_last.colour = mid_jet
    /\ (cm_last # NoConversion /\ cm_last.colour = mid_jet) => HalfOfRange
    /\ \A c \in TestCases :
         (cm_T = c.T /\ cm_last.value = c.value /\ cm_last.range_max = c.range_max
            /\ cm_last.range_min = 0)
         => cm_last.colour = mid_jet

C10_Witness ==
    /\ cm_T = "ulonglong"
    /\ cm_last.value = 500000
    /\ cm_last.range_max = 1000000
    /\ cm_last.colour = mid_jet
    /\ range_max = 256

\* the datum dat is the fraction (v - lo) / (hi - lo) in lowest terms,
\* limited to [0, 1]
IsFractionOfRange(dat, v, lo, hi) ==
    LET n == v - lo
        d == hi - lo
    IN  /\ d > 0
        /\ IF n <= 0 THEN dat = <<0, 1>>
           ELSE IF n >= d THEN dat = <<1, 1>>
           ELSE /\ dat[2] > 0
                /\ d % dat[2] = 0
                /\ n = dat[1] * (d \div dat[2])
                /\ Gcd(dat[1], dat[2]) = 1

\* C11: every conversion uses the bounds the map holds at the call, that
\* is the bounds most recently assigned by the owner (or the constructed
\* ones where none was assigned): the colour returned is the map's colour
\* for (value - range_min) / (range_max - range_min), and the conversion
\* changes neither bound.
C11_RangeInForce ==
    [][cm_last' # cm_last =>
         /\ cm_last'.range_min = range_min
         /\ cm_last'.range_max = range_max
         /\ range_min' = range_min
         /\ range_max' = range_max
         /\ cm_last'.colour.map = "Jet"
         /\ IsFractionOfRange(cm_last'.colour.datum, cm_last'.value, range_min, range_max)]_vars

C11_Witness ==
    /\ cm_T = "ulonglong"
    /\ range_set = {"min", "max"}
    /\ cm_last = [value |-> 256, range_min |-> 128, range_max |-> 1000000,
                  colour |-> JetColour(<<2, 15623>>)]
    /\ range_max = 256

\* the number of value bits of an integer input type
TypeValueBits(T) ==
    CASE T = "char" -> 7
      [] T = "uchar" -> 8
      [] T = "short" -> 15
      [] T = "ushort" -> 16
      [] T = "int" -> 31
      [] T = "uint" -> 32
      [] T = "ulonglong" -> 64

\* v is std::numeric_limits<T>::max(); no value held here reaches 2^31
IsTypeMaximum(T, v) ==
    /\ TypeValueBits(T) <= 31
    /\ v = 2 * (2 ^ (TypeValueBits(T) - 1) - 1) + 1

\* the owner has assigned neither bound since construction
FreshRange == range_set = {}

\* the integer input types whose constructed range the test states: char
\* ("127 is prime") and int ("range 0-255 by default")
DocumentedTypes == {"char", "int"}

FillColours == {vertexColors[k] : k \in {x \in DOMAIN vertexColors : IsMapColour(vertexColors[x])}}

\* c is the colour of the argument n/d taken modulo 1: the whole turns q
\* removed, the remainder in [0, 1) in lowest terms
IsColourOfWrapped(c, n, d) ==
    \E q \in -1..1 :
        LET w == n - q * d IN
        /\ 0 <= w /\ w < d
        /\ c.datum[2] > 0
        /\ d % c.datum[2] = 0
        /\ w = c.datum[1] * (d \div c.datum[2])
        /\ Gcd(c.datum[1], c.datum[2]) = 1

\* C13: the fill hands colour_angle/two_pi + decaying_sine to cm.convert as
\* it is, below 0 or above 1 included, and with a cyclic map the colour
\* stored for the vertex is the colour of that argument taken modulo 1;
\* the conversion has period 1: the argument plus or minus one whole turn
\* converts to the same colour.
C13_CyclicPeriod ==
    \A e \in FillColours :
        /\ e.arg[2] = numsegs * 10 * numrings * numrings * TrigScale
        /\ IsColourOfWrapped(e.colour, e.arg[1], e.arg[2])
        /\ FillConvert(e.arg[1] + e.arg[2], e.arg[2]) = e.colour
        /\ FillConvert(e.arg[1] - e.arg[2], e.arg[2]) = e.colour

\* the sine carried an argument below 0, and convert returned the colour
\* of the argument plus one
C13_Witness ==
    /\ pc = "done"
    /\ \E e \in FillColours :
         /\ e.arg[1] < 0
         /\ e.colour = CyclicColour(e.arg[1] + e.arg[2], e.arg[2])
         /\ e.colour.datum[1] > 0

IsFramePosition(v) == v.part = "frame"
IsFrameColour(c) == c.map = "framecolour"

\* C14: drawFrame requests exactly two ribbons from computeFlatCircleLine,
\* the first about the radius outer_radius + framelinewidth/2, the second
\* about inner_radius + framelinewidth/2 (radii doubled here), both of width
\* framelinewidth, colour framecolour, centre (0,0,z) and numsegs segments;
\* it runs only with draw_frame set, and then once the frame step is over
\* both ribbons are there; with draw_frame unset there is no ribbon, no
\* frame vertex and no frame colour, and the finished mesh is the fill's.
C14_FrameRibbons ==
    /\ ribbons # <<>> =>
         /\ draw_frame
         /\ Len(ribbons) = 2
         /\ ribbons[1].radius2 = 2 * outer_radius + framelinewidth
         /\ ribbons[2].radius2 = 2 * inner_radius + framelinewidth
         /\ \A r \in 1..2 :
              /\ ribbons[r].width = framelinewidth
              /\ ribbons[r].colour = "framecolour"
              /\ ribbons[r].centre = <<0, 0, z>>
              /\ ribbons[r].segs = numsegs
    /\ (draw_frame /\ pc \notin {"gap", "frame"}) =>
         /\ Len(ribbons) = 2
         /\ "frame" \in Range(steps)
    /\ ~draw_frame =>
         /\ ribbons = <<>>
         /\ "frame" \notin Range(steps)
         /\ Count(vertexPositions, IsFramePosition) = 0
         /\ Count(vertexColors, IsFrameColour) = 0
         /\ pc = "done" =>
              /\ Len(vertexPositions) = 2 * numrings * numsegs
              /\ Len(indices) = 6 * numrings * numsegs

C14_Witness ==
    /\ draw_frame
    /\ pc = "done"
    /\ numsegs = MaxFillSegs
    /\ Len(ribbons) = 2
    /\ ribbons[1].radius2 = 201
    /\ ribbons[2].radius2 = 61
    /\ Count(vertexPositions, IsFramePosition) > 0

\* fillFrameWithColour is running
InFill == pc \in {"fill", "ring", "verts", "tris"}

\* a step of fillFrameWithColour
FillStep ==
    FillBegin \/ RingBegin \/ VertexPush \/ VertsDone \/ PushTriangles \/ RingEnd \/ FillDone

\* the number of steps fillFrameWithColour has left: numrings rings of
\* 6 * numsegs vertex_push calls and numsegs index groups each, with the
\* loop entries and exits
RingCost == 7 * numsegs + 3
FillMeasure ==
    CASE pc = "fill" -> numrings * RingCost + 2
      [] pc = "ring" -> ring * RingCost + 1
      [] pc = "verts" -> (ring - 1) * RingCost + (6 * (numsegs - j) - sub) + numsegs + 3
      [] pc = "tris" -> (ring - 1) * RingCost + (numsegs - j) + 2
      [] OTHER -> 0

DegenerateFill == numrings = 0 \/ numsegs = 0

\* C15: with numrings = 0 or numsegs = 0 no step of fillFrameWithColour
\* changes a vertex buffer, the index buffer or idx, and no division or
\* modulo it evaluates has the divisor zero; with numsegs in {1, 2} every
\* index in the index buffer refers to a vertex already in the vertex
\* buffer; in all these cases the function terminates: while it runs a
\* step is enabled, and every step lowers the count of steps left, which
\* is zero only once the function has returned.
C15_DegenerateFill ==
    /\ [](DegenerateFill =>
            /\ 0 \notin fill_divs
            /\ Count(vertexPositions, IsFillVertex) = 0
            /\ Count(vertexColors, IsMapColour) = 0)
    /\ [](numsegs \in {1, 2} =>
            /\ 0 \notin fill_divs
            /\ \A k \in DOMAIN indices :
                 indices[k] >= 0 /\ indices[k] < Len(vertexPositions))
    /\ []((InFill /\ (DegenerateFill \/ numsegs \in {1, 2})) =>
            (ENABLED FillStep /\ FillMeasure > 0))
    /\ [][(InFill /\ DegenerateFill) =>
            (buffers' = buffers /\ texts' = texts)]_vars
    /\ [][(InFill /\ (DegenerateFill \/ numsegs \in {1, 2})) =>
            (FillMeasure' < FillMeasure /\ FillMeasure' >= 0
             /\ (FillMeasure' = 0 <=> pc' = "done"))]_vars

C15_Witness ==
    /\ pc = "done"
    /\ numsegs = 0
    /\ numrings = MaxRings
    /\ "fill" \in Range(steps)
    /\ fill_divs = {numrings, outer_radius - inner_radius}
    /\ vertexPositions = <<>>
    /\ indices = <<>>
    /\ idx = 0

\* C16 as stated: with draw_ticks false the first step of
\* initializeVertices measures nothing and leaves ticklabelgap as it was;
\* with draw_ticks true every label is placed with ticklabelgap equal to
\* half the measured width of the reference glyph.
C16_NoMeasurementWithoutTicks ==
    /\ [][(pc = "gap" /\ ~draw_ticks) =>
            (ticklabelgap' = ticklabelgap /\ "m" \notin Range(measured'))]_vars
    /\ [](draw_ticks => \A k \in DOMAIN texts : texts[k].gap = ReferenceGap)

\* C16, amended: initializeVertices always measures the reference glyph
\* "m" first and sets ticklabelgap to half its width, whether draw_ticks is
\* set or not; so from then on ticklabelgap is that half width, and with
\* draw_ticks true every label is placed with it.
C16_GapAlwaysMeasured ==
    /\ [][pc = "gap" =>
            /\ pc' # "gap"
            /\ ticklabelgap' = ReferenceGap
            /\ measured' = Append(measured, "m")]_vars
    /\ [](pc # "gap" =>
            (ticklabelgap = ReferenceGap /\ measured # <<>> /\ measured[1] = "m"))
    /\ [](\A k \in DOMAIN texts : draw_ticks /\ texts[k].gap = ReferenceGap)

C16_Witness ==
    /\ ~draw_ticks
    /\ pc = "done"
    /\ measured = <<"m">>
    /\ ticklabelgap = ReferenceGap
    /\ ticklabelgap # 5
    /\ texts = <<>>

\* v is the index of a vertex the fill emitted for ring r
IsVertexOfRing(v, r) ==
    /\ ValidIndex(v)
    /\ vertexPositions[v + 1].part = "fill"
    /\ vertexPositions[v + 1].ring = r
\* the rings whose index loop is over
RingsIndexed ==
    IF pc = "done" THEN 1..numrings
    ELSE IF pc \in {"ring", "verts", "tris"} THEN (ring + 1)..numrings
    ELSE {}

\* C17: in the index loop of the ring with base offset b = idx (the index
\* of the ring's first vertex), the step for segment j appends exactly the
\* six indices b+2j, b+2jn, b+2jn+1, b+2j, b+2jn+1, b+2j+1 with
\* jn = (j+1) mod S, all of them among the 2*S vertices of that ring, and
\* leaves idx alone; the end of the ring advances idx by exactly 2*S and
\* appends nothing; so a finished ring has 6*S index entries, and every
\* triangle of the fill has its three vertices on one ring.
C17_RingTriangles ==
    /\ [][(pc = "tris" /\ pc' = "tris") =>
            LET b == idx
                jn == (j + 1) % numsegs
            IN  /\ Appended = << b + 2 * j, b + 2 * jn, b + 2 * jn + 1,
                                 b + 2 * j, b + 2 * jn + 1, b + 2 * j + 1 >>
                /\ idx' = idx
                /\ j' = j + 1
                /\ IsVertexOfRing(b, ring) /\ ~IsVertexOfRing(b - 1, ring)
                /\ \A k \in 1..6 :
                     /\ Appended[k] >= b /\ Appended[k] < b + 2 * numsegs
                     /\ IsVertexOfRing(Appended[k], ring)]_vars
    /\ [][(pc = "tris" /\ pc' = "ring") =>
            (idx' = idx + 2 * numsegs /\ indices' = indices /\ j = numsegs)]_vars
    /\ [](\A r \in RingsIndexed :
            /\ Cardinality({k \in DOMAIN indices : IsVertexOfRing(indices[k], r)})
                 = 6 * numsegs
            /\ Cardinality({v \in 0..(Len(vertexPositions) - 1) : IsVertexOfRing(v, r)})
                 = 2 * numsegs)
    /\ [](\A t \in 1..NumTriangles : \A r \in 1..numrings :
            IsVertexOfRing(indices[3 * t], r) =>
                (IsVertexOfRing(indices[3 * t - 1], r) /\ IsVertexOfRing(indices[3 * t - 2], r)))

C17_Witness ==
    /\ pc = "done"
    /\ draw_frame
    /\ numrings = MaxRings
    /\ numsegs >= 3
    /\ idx = 4 * numsegs + 2 * numsegs * numrings
    /\ SubSeq(indices, Len(indices) - 5, Len(indices))
         = << idx - 2, idx - 2 * numsegs, idx - 2 * numsegs + 1,
              idx - 2, idx - 2 * numsegs + 1, idx - 1 >>

\* the fill vertices as pairs of position and colour
FillVertices ==
    {v \in DOMAIN vertexColors : v <= Len(vertexPositions) /\ IsMapColour(vertexColors[v])}

\* C18: the unperturbed colour fraction of a fill vertex is j/numsegs for
\* its segment j, whatever its ring and its side, and the argument of
\* convert is that fraction plus a perturbation; with show_perception_sine
\* false the perturbation is zero, so that all vertices of one segment,
\* the inner and the outer of one ring in particular, have the same
\* colour; two vertices of one segment with different colours exist only
\* with show_perception_sine true.
C18_ColourOfSegment ==
    /\ \A v \in FillVertices :
         /\ vertexPositions[v].part = "fill"
         /\ vertexColors[v].fn = vertexPositions[v].seg
         /\ vertexColors[v].fd = numsegs
    /\ ~show_perception_sine =>
         \A v \in FillVertices :
            /\ vertexColors[v].arg[1] * vertexColors[v].fd
                 = vertexColors[v].fn * vertexColors[v].arg[2]
            /\ \A u \in FillVertices :
                 vertexPositions[u].seg = vertexPositions[v].seg
                    => vertexColors[u].colour = vertexColors[v].colour
    /\ \A u, v \in FillVertices :
         (vertexPositions[u].seg = vertexPositions[v].seg
            /\ vertexColors[u].colour # vertexColors[v].colour)
         => show_perception_sine

\* with the sine, the inner and the outer vertex of one segment of one ring
\* have different colours
C18_Witness ==
    /\ pc = "done"
    /\ show_perception_sine
    /\ \E v \in FillVertices :
         /\ v + 1 \in FillVertices
         /\ vertexPositions[v].inner /\ ~vertexPositions[v + 1].inner
         /\ vertexPositions[v].seg = vertexPositions[v + 1].seg
         /\ vertexPositions[v].ring = vertexPositions[v + 1].ring
         /\ vertexColors[v].fn = vertexColors[v + 1].fn
         /\ vertexColors[v].colour # vertexColors[v + 1].colour

\* the positions of the fill vertices, in the order of emission
FillPositions == SelectSeq(vertexPositions, IsFillVertex)
\* the ring emitted as the m-th (from 1), and the inner (side 0) or outer
\* (side 1) vertex of its segment s, once emitted
RingEmitted(m) == numrings - m + 1
EmittedAt(m, s, side) == FillPositions[2 * numsegs * (m - 1) + 2 * s + side + 1]
RingsEmitted == Len(FillPositions) \div (2 * numsegs)

\* C19: the rings are emitted from ring numrings down to ring 1; with
\* w = (outer_radius - inner_radius) / numrings, the inner vertices of ring
\* k are at the radius inner_radius + w*(k-1) and its outer vertices at
\* inner_radius + w*k (radii times numrings here); so the first ring's
\* outer radius is outer_radius, each ring's inner radius is the outer
\* radius of the ring emitted next, and the last ring's inner radius is
\* inner_radius.
C19_RingRadii ==
    (numrings >= 1 /\ numsegs >= 1) =>
        /\ \A m \in 1..RingsEmitted : \A s \in 0..(numsegs - 1) :
             LET k == RingEmitted(m)
                 vin == EmittedAt(m, s, 0)
                 vout == EmittedAt(m, s, 1)
             IN  /\ vin.ring = k /\ vout.ring = k
                 /\ vin.inner /\ ~vout.inner
                 /\ vin.seg = s /\ vout.seg = s
                 /\ vin.rd = numrings /\ vout.rd = numrings
                 /\ vin.rn = inner_radius * numrings + (outer_radius - inner_radius) * (k - 1)
                 /\ vout.rn = inner_radius * numrings + (outer_radius - inner_radius) * k
                 /\ vin.rn < vout.rn
                 /\ m = 1 => vout.rn = outer_radius * numrings
                 /\ m > 1 => vout.rn = EmittedAt(m - 1, s, 0).rn
                 /\ m = numrings => vin.rn = inner_radius * numrings
        /\ pc = "done" => RingsEmitted = numrings

C19_Witness ==
    /\ pc = "done"
    /\ numrings = MaxRings
    /\ numsegs = MaxFillSegs
    /\ RingsEmitted = MaxRings
    /\ EmittedAt(1, 0, 1).rn = outer_radius * numrings
    /\ EmittedAt(1, 0, 0).rn = EmittedAt(2, 0, 1).rn
    /\ EmittedAt(numrings, 0, 0).rn = inner_radius * numrings

\* a read of labels[i] past the end has happened in this build pass: it
\* ended the program, or it yielded the string of a text object that has
\* no label
OobRead == pc = "crashed" \/ \E k \in DOMAIN texts : k > Len(labels)

\* C20: during a build pass the k-th text object is made from labels[k]
\* and label_angles[k], in index order (from a string that is no label
\* where k is past the end of labels); once the label loop is over there
\* are exactly as many text objects as label_angles has entries, so with
\* fewer angles than labels only the first |label_angles| labels have a
\* text; and a read of labels[i] past the end happens if and only if
\* |label_angles| > |labels|.
C20_LabelsPerAngle ==
    pc # "done" =>
        /\ \A k \in DOMAIN texts :
             /\ k <= Len(label_angles)
             /\ texts[k].angle = label_angles[k]
             /\ k <= Len(labels) => texts[k].text = labels[k]
             /\ k > Len(labels) => texts[k].text \notin Range(labels)
        /\ pc \in {"label", "crashed"} => Len(texts) = i
        /\ pc = "crashed" => (i >= Len(labels) /\ i < Len(label_angles))
        /\ InFill =>
             /\ Len(texts) = (IF draw_ticks THEN Len(label_angles) ELSE 0)
             /\ (draw_ticks /\ Len(label_angles) > Len(labels)) => OobRead
        /\ OobRead => Len(label_angles) > Len(labels)

\* an explicit angle list shorter than the label list: the first label has
\* a text, the others have none
C20_Witness ==
    /\ pc = "fill"
    /\ draw_ticks
    /\ Len(labels) = MaxLabels
    /\ angles_given = ExplicitAngles(1)
    /\ Len(texts) = 1
    /\ texts[1].text = labels[1]
    /\ texts[1].angle = angles_given[1]
    /\ ~OobRead

\* the render loop of the Voronoi example is running
LoopRunning == loop_pc \in {"while", "if", "render", "wait"}

\* C21: in the Voronoi example border_width is strictly positive at all
\* times, and so is the VoronoiVisual's copy; the visual's width changes
\* only by a key press: an up press makes it the float sum of it and 0.01f,
\* a down press the float difference, replaced by the float epsilon when
\* that difference is <= 0. In the render loop reinit is called exactly in
\* the iterations whose test finds the model's width different from the
\* visual's, the model's width changes only then, and after the if (at
\* render) the two are equal.
C21_BorderWidth ==
    /\ [](border_width > 0 /\ vorv_border_width > 0)
    /\ [][last_press' # last_press =>
            /\ last_press'.from = border_width
            /\ last_press'.to = border_width'
            /\ last_press'.key = "up" =>
                 /\ border_width' = FloatRound(border_width + PressStep)
                 /\ 2 * Abs(border_width' - (border_width + PressStep))
                      <= FloatQuantum(border_width + PressStep)
            /\ last_press'.key = "down" =>
                 /\ FloatRound(border_width - PressStep) > 0 =>
                      /\ border_width' = FloatRound(border_width - PressStep)
                      /\ border_width' < border_width
                 /\ FloatRound(border_width - PressStep) <= 0 =>
                      border_width' = FloatEpsilon]_vars
    /\ [][border_width' # border_width => last_press' # last_press]_vars
    /\ [][(last_reinit' # last_reinit \/ vorv_border_width' # vorv_border_width) =>
            /\ loop_pc = "if" /\ loop_pc' = "render"
            /\ vorv_border_width # border_width
            /\ border_width' = border_width
            /\ vorv_border_width' = border_width
            /\ last_reinit' = [from |-> vorv_border_width, to |-> border_width]]_vars
    /\ [][(loop_pc = "if" /\ loop_pc' # "if") =>
            /\ vorv_border_width' = border_width'
            /\ (vorv_border_width # border_width) <=> (last_reinit' # last_reinit)]_vars
    /\ [](loop_pc = "render" => vorv_border_width = border_width)

\* a down press at the float epsilon was reset to the epsilon, after ups
\* and downs that the model followed with a reinit each, the last of them
\* from one press above the epsilon
C21_Witness ==
    /\ loop_pc = "render"
    /\ last_press = [key |-> "down", from |-> FloatEpsilon, to |-> FloatEpsilon]
    /\ last_reinit = [from |-> FloatEpsilon + PressStep, to |-> FloatEpsilon]
    /\ border_width = FloatEpsilon
    /\ vorv_border_width = FloatEpsilon

====
